---- MODULE Spec2Model ----
(***************************************************************************)
(* Schema bindings of the GraphQL compiler (schema/schema_info.py), the    *)
(* dict merge of global_utils.py and the pagination skeleton exercised by  *)
(* tests/snapshot_tests/test_query_pagination.py.                          *)
(*                                                                         *)
(* Every operation is a pure function of its arguments.  A behaviour is one *)
(* call: Init draws the operation and its arguments, the operation's action *)
(* runs it and records what it returned (ret) or raised (err).             *)
(*                                                                         *)
(* A second specification, ObjectSpec, runs the constructors, the dict     *)
(* merge and TriState on objects with identity: heap holds the objects by  *)
(* reference, a returned object is used afterwards (attribute reads and    *)
(* assignments, method calls) and log records what each use gave.          *)
(*                                                                         *)
(* Python strings that the code inspects (startswith, equality) are tuples *)
(* of one-character strings, so that a prefix test is computed.            *)
(***************************************************************************)
EXTENDS Integers, Sequences, FiniteSets, TLC

VARIABLES pc, op, args, ret, err, heap, log

vars == <<pc, op, args, ret, err, heap, log>>

-----------------------------------------------------------------------------
(* Bounds of the explored inputs.                                          *)

MaxTypes == 2       \* entries of schema.type_map
MaxFields == 2      \* fields declared on one type
MaxNewData == 2     \* items of the new_data dict of a merge
MaxCount == 5       \* largest vertex count the statistics report
MaxUses == 3        \* uses of an object after its construction

-----------------------------------------------------------------------------
(* Python values.                                                          *)

\* Python's None: the absent result of a call that raised, an absent hints dict.
None == [py_none |-> TRUE]

\* No exception was raised.
NoError == [exc |-> "", msg |-> <<>>]

\* raise AssertionError(template.format(*format_args))
AssertionError(template, format_args) ==
    [exc |-> "AssertionError", msg |-> <<template>> \o format_args]

\* str.startswith
StartsWith(s, prefix) ==
    /\ Len(s) >= Len(prefix)
    /\ SubSeq(s, 1, Len(prefix)) = prefix

\* The sequences over S of length at most n without a repeated element: the key
\* order of a dict with keys in S.
RECURSIVE DistinctSeqs(_, _)
DistinctSeqs(S, n) ==
    IF n = 0 THEN {<<>>}
    ELSE LET shorter == DistinctSeqs(S, n - 1)
         IN shorter \cup
            {Append(s, x) : <<s, x>> \in
                {p \in shorter \X S : \A i \in 1..Len(p[1]) : p[1][i] # p[2]}}

\* The dicts with keys in K and values in V, as functions on their key set.
Dicts(K, V) == UNION {[D -> V] : D \in SUBSET K}

\* dict.get(key, default)
DictGet(d, key, default) == IF key \in DOMAIN d THEN d[key] ELSE default

EmptyDict == [k \in {} |-> None]

-----------------------------------------------------------------------------
(* Names.                                                                  *)

RootSchemaQuery == <<"R","o","o","t","S","c","h","e","m","a","Q","u","e","r","y">>
DunderType == <<"_","_","T","y","p","e">>
StringScalar == <<"S","t","r","i","n","g">>
Animal == <<"A","n","i","m","a","l">>
UnderEntity == <<"_","E","n","t","i","t","y">>

name_field == <<"n","a","m","e">>
x_count_field == <<"_","x","_","c","o","u","n","t">>
out_edge_field == <<"o","u","t","_","A","n","i","m","a","l","_","P","a","r","e","n","t","O","f">>
in_edge_field == <<"i","n","_","A","n","i","m","a","l","_","P","a","r","e","n","t","O","f">>
uuid_field == <<"u","u","i","d">>

TypeNames == {RootSchemaQuery, DunderType, StringScalar, Animal, UnderEntity}
FieldNames == {name_field, x_count_field, out_edge_field, in_edge_field}
ColumnNames == {name_field}

-----------------------------------------------------------------------------
(* The values the schema-binding constructors take.                        *)

\* A graphql-core type: its class and the keys of its fields dict, in order.
GraphQLType(kind, fields) == [kind |-> kind, fields |-> fields]

\* The items of schema.type_map that the explored schemas are made of.  The
\* root query type has one field per vertex type; the introspection type and
\* the scalar are what graphql-core adds to every schema.
TypeMapItems ==
    {<<RootSchemaQuery, GraphQLType("GraphQLObjectType", <<Animal>>)>>,
     <<DunderType, GraphQLType("GraphQLObjectType", <<name_field>>)>>,
     <<StringScalar, GraphQLType("GraphQLScalarType", <<>>)>>}
    \cup {<<Animal, GraphQLType("GraphQLObjectType", f)>> :
             f \in DistinctSeqs(FieldNames, MaxFields)}
    \cup {<<UnderEntity, GraphQLType("GraphQLInterfaceType", f)>> :
             f \in DistinctSeqs({name_field, out_edge_field}, MaxFields)}

\* schema.type_map: a dict, so no type name occurs twice; items in dict order.
TypeMaps ==
    {m \in DistinctSeqs(TypeMapItems, MaxTypes) :
        \A i, j \in 1..Len(m) : i # j => m[i][1] # m[j][1]}

Schemas == {[type_map |-> m] : m \in TypeMaps}

\* A value of vertex_name_to_table: a sqlalchemy.Table with its columns (.c)
\* and primary key columns, or an object of another class (is_table FALSE),
\* here the table's name as a str.
Table(columns, primary_key) ==
    [is_table |-> TRUE, class |-> <<"T","a","b","l","e">>, c |-> columns,
     primary_key |-> primary_key]
NotATable ==
    [is_table |-> FALSE, class |-> <<"s","t","r">>, c |-> {}, primary_key |-> {}]

AnimalTables ==
    {NotATable, Table({}, {}), Table({name_field}, {}), Table({name_field}, {name_field})}
EntityTables == {Table({name_field}, {name_field})}

VertexNameToTables ==
    {[n \in D |-> IF n = Animal THEN t[1] ELSE t[2]] :
        <<D, t>> \in (SUBSET {Animal, UnderEntity}) \X (AnimalTables \X EntityTables)}

DirectJoinDescriptor(from_column, to_column) ==
    [from_column |-> from_column, to_column |-> to_column]

\* The join descriptors of one type: a dict keyed by vertex field name.
JoinsOn(field_names) ==
    [f \in field_names |-> DirectJoinDescriptor(name_field, name_field)]

JoinDescriptors ==
    {EmptyDict,
     [n \in {Animal} |-> EmptyDict],
     [n \in {Animal} |-> JoinsOn({out_edge_field})],
     [n \in {Animal} |-> JoinsOn({out_edge_field, in_edge_field})],
     [n \in {Animal, UnderEntity} |-> JoinsOn({out_edge_field, in_edge_field})]}

\* type_equivalence_hints: None or a dict.
TypeEquivalenceHints == {None, [Animal |-> "Union__Animal"]}

\* Dialects a caller passes to make_sqlalchemy_schema_info.
Dialects == {"postgresql_dialect()", "mssql_dialect()"}

-----------------------------------------------------------------------------
(* schema/schema_info.py                                                   *)

\* is_vertex_field_name of the schema package: vertex fields are the fields
\* named out_<edge> or in_<edge>.
is_vertex_field_name(field_name) ==
    \/ StartsWith(field_name, <<"o","u","t","_">>)
    \/ StartsWith(field_name, <<"i","n","_">>)

\* SQLAlchemySchemaInfo that drops the type equivalence hints.
SQLAlchemySchemaInfo_no_hints(schema, type_equivalence_hints, dialect, vertex_name_to_table, join_descriptors) ==
    [schema |-> schema,
     type_equivalence_hints |-> None,
     dialect |-> dialect,
     vertex_name_to_table |-> vertex_name_to_table,
     join_descriptors |-> join_descriptors]

\* SQLAlchemySchemaInfo with the join descriptors and the tables in each other's place.
SQLAlchemySchemaInfo_joins_as_tables(schema, type_equivalence_hints, dialect, vertex_name_to_table, join_descriptors) ==
    [schema |-> schema,
     type_equivalence_hints |-> type_equivalence_hints,
     dialect |-> dialect,
     vertex_name_to_table |-> join_descriptors,
     join_descriptors |-> vertex_name_to_table]

SQLAlchemySchemaInfo(schema, type_equivalence_hints, dialect, vertex_name_to_table, join_descriptors) ==
    [schema |-> schema,
     type_equivalence_hints |-> type_equivalence_hints,
     dialect |-> dialect,
     vertex_name_to_table |-> vertex_name_to_table,
     join_descriptors |-> join_descriptors]

\* types_to_map without the interface types.
types_to_map_objects_only == {"GraphQLObjectType"}

types_to_map == {"GraphQLInterfaceType", "GraphQLObjectType"}

builtin_fields == {x_count_field}

\* The types the validation loop looks at (lines 299-300).
NeedsTable(type_name, graphql_type) ==
    /\ graphql_type.kind \in types_to_map
    /\ type_name # RootSchemaQuery
    /\ ~StartsWith(type_name, <<"_","_">>)

\* Lines 302-308: the table of the type exists and is a sqlalchemy.Table.
CheckTable(type_name, vertex_name_to_table) ==
    IF type_name \notin DOMAIN vertex_name_to_table
    THEN AssertionError("Table for type {} not found", <<type_name>>)
    ELSE IF ~vertex_name_to_table[type_name].is_table
    THEN AssertionError("Table for type {} has wrong type {}",
                        <<type_name, vertex_name_to_table[type_name].class>>)
    ELSE NoError

\* Lines 312-323: one field of the type.
CheckField(type_name, field_name, table, join_descriptors) ==
    IF is_vertex_field_name(field_name)
    THEN IF field_name \notin DOMAIN DictGet(join_descriptors, type_name, EmptyDict)
         THEN AssertionError("No join descriptor was specified for vertex field {} on type {}",
                             <<field_name, type_name>>)
         ELSE NoError
    ELSE IF field_name \notin builtin_fields /\ field_name \notin table.c
         THEN AssertionError("Table for type {} has no column for property field {}",
                             <<type_name, field_name>>)
         ELSE NoError

\* The field loop collecting errors and raising the last one.
RECURSIVE CheckFields_last(_, _, _, _, _)
CheckFields_last(type_name, fields, i, table, join_descriptors) ==
    IF i > Len(fields) THEN NoError
    ELSE LET later == CheckFields_last(type_name, fields, i + 1, table, join_descriptors)
         IN IF later # NoError THEN later
            ELSE CheckField(type_name, fields[i], table, join_descriptors)

\* Line 311: the loop over graphql_type.fields, from field i on; the first
\* raise ends it.
RECURSIVE CheckFields(_, _, _, _, _)
CheckFields(type_name, fields, i, table, join_descriptors) ==
    IF i > Len(fields) THEN NoError
    ELSE LET raised == CheckField(type_name, fields[i], table, join_descriptors)
         IN IF raised # NoError THEN raised
            ELSE CheckFields(type_name, fields, i + 1, table, join_descriptors)

\* Lines 299-323: the body of the loop over the type map for one type.
ValidateType(type_name, graphql_type, vertex_name_to_table, join_descriptors) ==
    IF ~NeedsTable(type_name, graphql_type) THEN NoError
    ELSE LET raised == CheckTable(type_name, vertex_name_to_table)
         IN IF raised # NoError THEN raised
            ELSE CheckFields(type_name, graphql_type.fields, 1,
                             vertex_name_to_table[type_name], join_descriptors)

\* Line 298: the loop over schema.type_map, from item i on.
RECURSIVE ValidateTypeMap(_, _, _, _)
ValidateTypeMap(type_map, i, vertex_name_to_table, join_descriptors) ==
    IF i > Len(type_map) THEN NoError
    ELSE LET raised == ValidateType(type_map[i][1], type_map[i][2],
                                    vertex_name_to_table, join_descriptors)
         IN IF raised # NoError THEN raised
            ELSE ValidateTypeMap(type_map, i + 1, vertex_name_to_table, join_descriptors)

\* What a call does: the exception it raised, or the value it returned.
Raise(exception) == [raised |-> exception, returned |-> None]
Return(value) == [raised |-> NoError, returned |-> value]

GenericSchemaInfo(schema, type_equivalence_hints) ==
    [schema |-> schema, type_equivalence_hints |-> type_equivalence_hints]

\* The dataclasses of the graph backends: the one field of their base class.
MatchSchemaInfo(generic_schema_info) == [generic_schema_info |-> generic_schema_info]
GremlinSchemaInfo(generic_schema_info) == [generic_schema_info |-> generic_schema_info]
CypherSchemaInfo(generic_schema_info) == [generic_schema_info |-> generic_schema_info]

create_match_schema_info(schema, type_equivalence_hints) ==
    LET generic_schema_info == GenericSchemaInfo(schema, type_equivalence_hints)
    IN Return(MatchSchemaInfo(generic_schema_info))

create_gremlin_schema_info(schema, type_equivalence_hints) ==
    LET generic_schema_info == GenericSchemaInfo(schema, type_equivalence_hints)
    IN Return(GremlinSchemaInfo(generic_schema_info))

create_cypher_schema_info(schema, type_equivalence_hints) ==
    LET generic_schema_info == GenericSchemaInfo(schema, type_equivalence_hints)
    IN Return(CypherSchemaInfo(generic_schema_info))

SQLSchemaInfo(generic_schema_info, dialect, vertex_name_to_table, join_descriptors) ==
    [generic_schema_info |-> generic_schema_info,
     dialect |-> dialect,
     vertex_name_to_table |-> vertex_name_to_table,
     join_descriptors |-> join_descriptors]

_create_sql_schema_info(dialect, schema, vertex_name_to_table, join_descriptors, type_equivalence_hints) ==
    LET generic_schema_info == GenericSchemaInfo(schema, type_equivalence_hints)
    IN Return(SQLSchemaInfo(generic_schema_info, dialect, vertex_name_to_table,
                            join_descriptors))

\* partial(_create_sql_schema_info, <dialect class>)
create_postgresql_schema_info(schema, vertex_name_to_table, join_descriptors, type_equivalence_hints) ==
    _create_sql_schema_info("postgresql_dialect", schema, vertex_name_to_table,
                            join_descriptors, type_equivalence_hints)

create_mssql_schema_info(schema, vertex_name_to_table, join_descriptors, type_equivalence_hints) ==
    _create_sql_schema_info("mssql_dialect", schema, vertex_name_to_table,
                            join_descriptors, type_equivalence_hints)

create_mysql_schema_info(schema, vertex_name_to_table, join_descriptors, type_equivalence_hints) ==
    _create_sql_schema_info("mysql_dialect", schema, vertex_name_to_table,
                            join_descriptors, type_equivalence_hints)

make_sqlalchemy_schema_info(schema, type_equivalence_hints, dialect, vertex_name_to_table, join_descriptors, validate) ==
    LET raised == IF validate
                  THEN ValidateTypeMap(schema.type_map, 1, vertex_name_to_table,
                                       join_descriptors)
                  ELSE NoError
    IN IF raised # NoError THEN Raise(raised)
       ELSE Return(SQLAlchemySchemaInfo(schema, type_equivalence_hints, dialect,
                                        vertex_name_to_table, join_descriptors))

\* EdgeConstraint members.
EdgeConstraint ==
    {"AtLeastOneSource", "AtMostOneSource", "AtLeastOneDestination",
     "AtMostOneDestination"}

\* The generated dataclass __init__: it stores its arguments.
QueryPlanningSchemaInfo(schema, type_equivalence_hints, schema_graph, statistics, pagination_keys, uuid4_fields, edge_constraints) ==
    Return([schema |-> schema,
            type_equivalence_hints |-> type_equivalence_hints,
            schema_graph |-> schema_graph,
            statistics |-> statistics,
            pagination_keys |-> pagination_keys,
            uuid4_fields |-> uuid4_fields,
            edge_constraints |-> edge_constraints])

\* field(default_factory=dict), the edge_constraints of a call that passes none.
edge_constraints_default == EmptyDict

-----------------------------------------------------------------------------
(* global_utils.py                                                         *)

\* The loop of lines 9-15 from item i of new_data on; result is the dict built
\* so far.  new_data is given by its items in iteration order.
RECURSIVE MergeItems(_, _, _, _)
MergeItems(merge_target, new_data, i, result) ==
    IF i > Len(new_data) THEN Return(result)
    ELSE LET key == new_data[i][1]
             value == new_data[i][2]
         IN IF key \in DOMAIN merge_target
            THEN Raise(AssertionError(
                     "Overlapping key \"{}\" found in dicts that are supposed to not overlap. Values: {} {}",
                     <<key, merge_target[key], value>>))
            ELSE MergeItems(merge_target, new_data, i + 1,
                            [k \in DOMAIN result \cup {key} |->
                                IF k = key THEN value ELSE result[k]])

merge_non_overlapping_dicts(merge_target, new_data) ==
    MergeItems(merge_target, new_data, 1, merge_target)

-----------------------------------------------------------------------------
(* Queries, and the pagination of tests/snapshot_tests/test_query_pagination.py *)

\* A selection of a query: a field of the root vertex with its directives.
Selection(field_name, directives) == [field_name |-> field_name, directives |-> directives]
Output(out_name) == [directive |-> "output", out_name |-> out_name]
Filter(op_name, value) == [directive |-> "filter", op_name |-> op_name, value |-> value]

\* A parsed query on one root vertex.
Query(vertex, selections) == [vertex |-> vertex, selections |-> selections]

QueryAndParameters(query, parameters) == [query |-> query, parameters |-> parameters]

\* test_data (lines 24-28): { Animal { name @output(out_name: "animal") } }
test_ast == Query(Animal, <<Selection(name_field, <<Output("animal")>>)>>)

\* paginate_query of the query_pagination package, as the test observes it
\* (lines 38-45): the call raises NotImplementedError.
paginate_query(schema_graph, statistics, query_ast, parameters, page_size) ==
    Raise([exc |-> "NotImplementedError", msg |-> <<>>])

\* expected_query_list (lines 47-70).
expected_query_list ==
    <<QueryAndParameters(
          Query(Animal,
                <<Selection(uuid_field,
                            <<Filter("<", <<<<"$","_","p","a","g","e","d","_","u","p","p","e","r",
                                              "_","p","a","r","a","m","_","o","n","_",
                                              "A","n","i","m","a","l","_","u","u","i","d">>>>)>>),
                  Selection(name_field, <<Output("animal")>>)>>),
          [n \in {<<"_","p","a","g","e","d","_","u","p","p","e","r",
                    "_","p","a","r","a","m","_","o","n","_",
                    "A","n","i","m","a","l","_","u","u","i","d">>} |->
              <<"4","0","0","0","0","0","0","0","-","0","0","0","0","-","0","0","0","0","-",
                "0","0","0","0","-","0","0","0","0","0","0","0","0","0","0","0","0">>]),
      QueryAndParameters(
          Query(Animal,
                <<Selection(uuid_field,
                            <<Filter(">=", <<<<"$","_","p","a","g","e","d","_","l","o","w","e","r",
                                               "_","p","a","r","a","m","_","o","n","_",
                                               "A","n","i","m","a","l","_","u","u","i","d">>>>)>>),
                  Selection(name_field, <<Output("animal")>>)>>),
          [n \in {<<"_","p","a","g","e","d","_","l","o","w","e","r",
                    "_","p","a","r","a","m","_","o","n","_",
                    "A","n","i","m","a","l","_","u","u","i","d">>} |->
              <<"4","0","0","0","0","0","0","0","-","0","0","0","0","-","0","0","0","0","-",
                "0","0","0","0","-","0","0","0","0","0","0","0","0","0","0","0","0">>])>>

\* LocalStatistics(count_data)
LocalStatistics(count_data) == [class_counts |-> count_data]

\* test_basic_pagination (lines 21-70): the call under
\* assertRaises(NotImplementedError), then the local expected_query_list, which
\* nothing reads.  The test returns None.
test_basic_pagination(schema_graph) ==
    LET parameters == EmptyDict
        count_data == [v \in {Animal} |-> 4]
        statistics == LocalStatistics(count_data)
        paginated_queries == paginate_query(schema_graph, statistics, test_ast, parameters, 1)
    IN IF paginated_queries.raised = NoError
       THEN Raise(AssertionError("NotImplementedError not raised", <<>>))
       ELSE IF paginated_queries.raised.exc = "NotImplementedError"
       THEN Return(None)
       ELSE Raise(paginated_queries.raised)

-----------------------------------------------------------------------------
(* schema_generation/sqlalchemy/__init__.py                                *)

EdgeName == <<"A","n","i","m","a","l","_","P","a","r","e","n","t","O","f">>

DirectEdgeDescriptor(from_vertex, from_column, to_vertex, to_column) ==
    [from_vertex |-> from_vertex, from_column |-> from_column,
     to_vertex |-> to_vertex, to_column |-> to_column]

\* What a helper imported from outside this package gave when called: the
\* value it returned, or the exception it raised.
HelperError == [exc |-> "Exception", msg |-> <<>>]

\* get_sqlalchemy_schema_info (lines 8-62).  Its three helpers
\* (get_sqlalchemy_schema_graph, get_graphql_schema_from_schema_graph,
\* get_join_descriptors_from_edge_descriptors) are imported from other modules:
\* `helpers` holds the outcome of each call, in call order, and an exception of
\* a helper propagates.  class_to_field_type_overrides is only handed to the
\* second helper.
get_sqlalchemy_schema_info(vertex_name_to_table, direct_edges, dialect, class_to_field_type_overrides, helpers) ==
    LET schema_graph == helpers.get_sqlalchemy_schema_graph
        schema_and_hints == helpers.get_graphql_schema_from_schema_graph
        join_descriptors == helpers.get_join_descriptors_from_edge_descriptors
    IN IF schema_graph.raised # NoError THEN Raise(schema_graph.raised)
       ELSE IF schema_and_hints.raised # NoError THEN Raise(schema_and_hints.raised)
       ELSE IF join_descriptors.raised # NoError THEN Raise(join_descriptors.raised)
       ELSE Return(SQLAlchemySchemaInfo(schema_and_hints.returned.graphql_schema,
                                        schema_and_hints.returned.type_equivalence_hints,
                                        dialect, vertex_name_to_table,
                                        join_descriptors.returned))

-----------------------------------------------------------------------------
(* The calls.                                                              *)

MakeArgs ==
    [schema : Schemas,
     type_equivalence_hints : TypeEquivalenceHints,
     dialect : Dialects,
     vertex_name_to_table : VertexNameToTables,
     join_descriptors : JoinDescriptors,
     validate : BOOLEAN]

\* The creators store the hints unread: called here with the default, None.
CreateArgs ==
    [schema : Schemas,
     type_equivalence_hints : {None},
     vertex_name_to_table : VertexNameToTables,
     join_descriptors : JoinDescriptors]

\* The tables a caller reflects from a database, and direct edges between them.
ReflectedTables ==
    {t \in VertexNameToTables : \A n \in DOMAIN t : t[n].is_table}

DirectEdges ==
    {EmptyDict}
    \cup {[e \in {EdgeName} |-> DirectEdgeDescriptor(Animal, name_field, to, name_field)] :
             to \in {Animal, UnderEntity}}

\* The schema graph of the test schema: its vertex and edge class names.
Unicorn == <<"U","n","i","c","o","r","n">>
UnknownEdge == <<"N","o","_","S","u","c","h","E","d","g","e">>

SchemaGraphs == {[vertices |-> {Animal}, edges |-> {EdgeName}]}

\* Schemas the second helper may give: the root query type and one vertex type.
GeneratedSchemas ==
    {x \in Schemas : /\ Len(x.type_map) = 2
                     /\ x.type_map[1][1] = RootSchemaQuery
                     /\ x.type_map[2][1] = Animal}

\* The outcomes of the three helper calls.  A helper that is not reached,
\* because an earlier one raised, has no outcome: it is listed as raising too.
HelperOutcomes ==
    {[get_sqlalchemy_schema_graph |-> Raise(HelperError),
      get_graphql_schema_from_schema_graph |-> Raise(HelperError),
      get_join_descriptors_from_edge_descriptors |-> Raise(HelperError)]}
    \cup {[get_sqlalchemy_schema_graph |-> Return(g),
           get_graphql_schema_from_schema_graph |-> Raise(HelperError),
           get_join_descriptors_from_edge_descriptors |-> Raise(HelperError)] :
              g \in SchemaGraphs}
    \cup {[get_sqlalchemy_schema_graph |-> Return(g),
           get_graphql_schema_from_schema_graph |->
               Return([graphql_schema |-> x, type_equivalence_hints |-> EmptyDict]),
           get_join_descriptors_from_edge_descriptors |-> j] :
              <<g, x, j>> \in SchemaGraphs \X GeneratedSchemas
                                \X ({Raise(HelperError)} \cup {Return(d) : d \in JoinDescriptors})}

GetArgs ==
    [vertex_name_to_table : ReflectedTables,
     direct_edges : DirectEdges,
     dialect : Dialects,
     class_to_field_type_overrides : {None},
     helpers : HelperOutcomes]

Statistics == {[class_counts |-> c] : c \in Dicts({Animal}, 0..MaxCount)}

\* The one call of paginate_query the test makes (lines 30-45).
PaginateArgs ==
    [schema_graph : SchemaGraphs,
     statistics : {LocalStatistics([v \in {Animal} |-> 4])},
     query_ast : {test_ast},
     parameters : {EmptyDict},
     page_size : {1}]

TestArgs == [schema_graph : SchemaGraphs]

PlanningArgs ==
    [schema : {[type_map |-> <<>>]},
     type_equivalence_hints : TypeEquivalenceHints,
     schema_graph : SchemaGraphs,
     statistics : Statistics,
     pagination_keys : Dicts({Animal, Unicorn}, {uuid_field}),
     uuid4_fields : Dicts({Animal, Unicorn}, {{uuid_field}}),
     edge_constraints : Dicts({EdgeName, UnknownEdge},
                              {{"AtMostOneSource"}, {"AtLeastOneSource", "AtMostOneSource"}}),
     passes_edge_constraints : BOOLEAN]

ParameterNames ==
    {"_paged_lower_param_on_Animal_uuid", "_paged_upper_param_on_Animal_uuid", "start"}
ParameterValues == {"x", "y"}

MergeArgs ==
    [merge_target : Dicts(ParameterNames, ParameterValues),
     new_data : {d \in DistinctSeqs(ParameterNames \X ParameterValues, MaxNewData) :
                    \A i, j \in 1..Len(d) : i # j => d[i][1] # d[j][1]}]

SqlCreators ==
    {"create_postgresql_schema_info", "create_mssql_schema_info",
     "create_mysql_schema_info"}

ArgsOf(operation) ==
    CASE operation = "make_sqlalchemy_schema_info" -> MakeArgs
      [] operation \in SqlCreators -> CreateArgs
      [] operation = "get_sqlalchemy_schema_info" -> GetArgs
      [] operation = "QueryPlanningSchemaInfo" -> PlanningArgs
      [] operation = "merge_non_overlapping_dicts" -> MergeArgs
      [] operation = "paginate_query" -> PaginateArgs
      [] operation = "test_basic_pagination" -> TestArgs

Operations ==
    {"make_sqlalchemy_schema_info", "get_sqlalchemy_schema_info",
     "QueryPlanningSchemaInfo", "merge_non_overlapping_dicts",
     "paginate_query", "test_basic_pagination"} \cup SqlCreators

Init ==
    /\ pc = "call"
    /\ op \in Operations
    /\ args \in ArgsOf(op)
    /\ ret = None
    /\ err = NoError
    /\ heap = <<>>
    /\ log = <<>>

Finish(outcome) ==
    /\ pc' = "done"
    /\ ret' = outcome.returned
    /\ err' = outcome.raised
    /\ UNCHANGED <<op, args, heap, log>>

MakeSqlalchemySchemaInfo ==
    /\ pc = "call"
    /\ op = "make_sqlalchemy_schema_info"
    /\ Finish(make_sqlalchemy_schema_info(args.schema, args.type_equivalence_hints,
                                          args.dialect, args.vertex_name_to_table,
                                          args.join_descriptors, args.validate))

CreatePostgresqlSchemaInfo ==
    /\ pc = "call"
    /\ op = "create_postgresql_schema_info"
    /\ Finish(create_postgresql_schema_info(args.schema, args.vertex_name_to_table,
                                            args.join_descriptors,
                                            args.type_equivalence_hints))

CreateMssqlSchemaInfo ==
    /\ pc = "call"
    /\ op = "create_mssql_schema_info"
    /\ Finish(create_mssql_schema_info(args.schema, args.vertex_name_to_table,
                                       args.join_descriptors, args.type_equivalence_hints))

CreateMysqlSchemaInfo ==
    /\ pc = "call"
    /\ op = "create_mysql_schema_info"
    /\ Finish(create_mysql_schema_info(args.schema, args.vertex_name_to_table,
                                       args.join_descriptors, args.type_equivalence_hints))

GetSqlalchemySchemaInfo ==
    /\ pc = "call"
    /\ op = "get_sqlalchemy_schema_info"
    /\ Finish(get_sqlalchemy_schema_info(args.vertex_name_to_table, args.direct_edges,
                                         args.dialect, args.class_to_field_type_overrides,
                                         args.helpers))

ConstructQueryPlanningSchemaInfo ==
    /\ pc = "call"
    /\ op = "QueryPlanningSchemaInfo"
    /\ Finish(QueryPlanningSchemaInfo(
                  args.schema, args.type_equivalence_hints, args.schema_graph,
                  args.statistics, args.pagination_keys, args.uuid4_fields,
                  IF args.passes_edge_constraints THEN args.edge_constraints
                  ELSE edge_constraints_default))

MergeNonOverlappingDicts ==
    /\ pc = "call"
    /\ op = "merge_non_overlapping_dicts"
    /\ Finish(merge_non_overlapping_dicts(args.merge_target, args.new_data))

PaginateQuery ==
    /\ pc = "call"
    /\ op = "paginate_query"
    /\ Finish(paginate_query(args.schema_graph, args.statistics, args.query_ast,
                             args.parameters, args.page_size))

TestBasicPagination ==
    /\ pc = "call"
    /\ op = "test_basic_pagination"
    /\ Finish(test_basic_pagination(args.schema_graph))

Next ==
    \/ MakeSqlalchemySchemaInfo
    \/ CreatePostgresqlSchemaInfo
    \/ CreateMssqlSchemaInfo
    \/ CreateMysqlSchemaInfo
    \/ GetSqlalchemySchemaInfo
    \/ ConstructQueryPlanningSchemaInfo
    \/ MergeNonOverlappingDicts
    \/ PaginateQuery
    \/ TestBasicPagination

Spec == Init /\ [][Next]_vars

-----------------------------------------------------------------------------
(* Objects with identity.  heap[r.ref] is the object a reference r names;  *)
(* the objects passed to a call are the first entries of the heap, in the  *)
(* order of ObjectParams, and args keeps their values at the time of the   *)
(* call.                                                                   *)

Ref(n) == [ref |-> n]

\* A newly created object: the heap with it, and the reference to it.
NewObject(h, contents) == [heap |-> Append(h, contents), ref |-> Ref(Len(h) + 1)]

\* The parameters of an operation that are passed an object, in heap order.
ObjectParams(operation) ==
    CASE operation = "merge_non_overlapping_dicts" -> <<"merge_target", "new_data">>
      [] operation \in {"make_sqlalchemy_schema_info"} \cup SqlCreators ->
            <<"schema", "vertex_name_to_table", "join_descriptors",
              "type_equivalence_hints">>
      [] operation \in {"create_match_schema_info", "create_gremlin_schema_info",
                        "create_cypher_schema_info"} ->
            <<"schema", "type_equivalence_hints">>
      [] OTHER -> <<>>

\* The reference passed for a parameter.
ArgRef(operation, name) ==
    Ref(CHOOSE i \in 1..Len(ObjectParams(operation)) : ObjectParams(operation)[i] = name)

\* The heap at the time of the call: the argument objects.
HeapOf(operation, a) ==
    [i \in 1..Len(ObjectParams(operation)) |-> a[ObjectParams(operation)[i]]]

-----------------------------------------------------------------------------
(* global_utils.py on objects                                              *)

\* A merge whose result is the merge_target dict itself.
dict_alias(h, d) == [heap |-> h, ref |-> d]

\* dict(d): a new dict holding the items of d.
dict_copy(h, d) == NewObject(h, h[d.ref])

\* The loop of lines 9-15 from item i of new_data on, storing into the dict
\* that result refers to.
RECURSIVE MergeObjectItems(_, _, _, _, _)
MergeObjectItems(h, merge_target, new_data, i, result) ==
    IF i > Len(h[new_data.ref]) THEN [heap |-> h, outcome |-> Return(result)]
    ELSE LET key == h[new_data.ref][i][1]
             value == h[new_data.ref][i][2]
             stored == h[result.ref]
         IN IF key \in DOMAIN h[merge_target.ref]
            THEN [heap |-> h,
                  outcome |-> Raise(AssertionError(
                      "Overlapping key \"{}\" found in dicts that are supposed to not overlap. Values: {} {}",
                      <<key, h[merge_target.ref][key], value>>))]
            ELSE MergeObjectItems(
                     [h EXCEPT ![result.ref] =
                         [k \in DOMAIN stored \cup {key} |->
                             IF k = key THEN value ELSE stored[k]]],
                     merge_target, new_data, i + 1, result)

\* merge_non_overlapping_dicts given references to its two dicts.
MergeObjects(h, merge_target, new_data) ==
    LET result == dict_copy(h, merge_target)
    IN MergeObjectItems(result.heap, merge_target, new_data, 1, result.ref)

\* Python values a TriState is constructed with: bool, int, float, str, None.
\* A number is given by its class and its numeric value.
PyBool(b) == [type |-> "bool", v |-> IF b THEN 1 ELSE 0]
PyInt(n) == [type |-> "int", v |-> n]
PyFloat(n) == [type |-> "float", v |-> n]
PyStr(chars) == [type |-> "str", chars |-> chars]
PyTrue == PyBool(TRUE)
PyFalse == PyBool(FALSE)

IsNumber(x) == x # None /\ x.type \in {"bool", "int", "float"}

\* x == y: numbers compare by value whatever their class (True == 1,
\* False == 0), anything else only with its own kind.
PyEq(x, y) ==
    IF x = None \/ y = None THEN x = None /\ y = None
    ELSE IF IsNumber(x) /\ IsNumber(y) THEN x.v = y.v
    ELSE IF IsNumber(x) \/ IsNumber(y) THEN FALSE
    ELSE x = y

\* x in list: some element is x or equals x.
PyIn(x, list) == \E i \in 1..Len(list) : x = list[i] \/ PyEq(x, list[i])

\* TriState.__init__
TriState_init(h, value) ==
    IF ~PyIn(value, <<PyTrue, PyFalse, None>>)
    THEN [heap |-> h,
          outcome |-> Raise(AssertionError(
              "Tristate value must be either True, False, or None.", <<>>))]
    ELSE LET self == NewObject(h, [_value |-> value])
         IN [heap |-> self.heap, outcome |-> Return(self.ref)]

\* TriState.value
TriState_value(h, self) == Return(h[self.ref]._value)

\* TriState.__bool__
TriState_bool(h, self) ==
    Raise([exc |-> "ValueError",
           msg |-> <<"Cannot implicitly convert Tristate to a boolean.">>])

\* TriState.__nonzero__
TriState_nonzero(h, self) == TriState_bool(h, self)

-----------------------------------------------------------------------------
(* schema_info.py on objects                                               *)

\* make_sqlalchemy_schema_info given references: the validation reads the
\* objects, the namedtuple returned holds the references it was given.
MakeSqlalchemyObject(h, schema, type_equivalence_hints, dialect, vertex_name_to_table, join_descriptors, validate) ==
    LET checked == make_sqlalchemy_schema_info(
                       h[schema.ref], h[type_equivalence_hints.ref], dialect,
                       h[vertex_name_to_table.ref], h[join_descriptors.ref], validate)
        binding == NewObject(h, SQLAlchemySchemaInfo(
                       schema, type_equivalence_hints, dialect, vertex_name_to_table,
                       join_descriptors))
    IN IF checked.raised # NoError
       THEN [heap |-> h, outcome |-> Raise(checked.raised)]
       ELSE [heap |-> binding.heap, outcome |-> Return(binding.ref)]

\* create_<dialect>_schema_info given references: nothing is read, the
\* SQLSchemaInfo returned holds the references it was given.
CreateSqlObject(h, creator, schema, vertex_name_to_table, join_descriptors, type_equivalence_hints) ==
    LET created ==
            CASE creator = "create_postgresql_schema_info" ->
                    create_postgresql_schema_info(schema, vertex_name_to_table,
                                                  join_descriptors, type_equivalence_hints)
              [] creator = "create_mssql_schema_info" ->
                    create_mssql_schema_info(schema, vertex_name_to_table,
                                             join_descriptors, type_equivalence_hints)
              [] creator = "create_mysql_schema_info" ->
                    create_mysql_schema_info(schema, vertex_name_to_table,
                                             join_descriptors, type_equivalence_hints)
        binding == NewObject(h, created.returned)
    IN [heap |-> binding.heap, outcome |-> Return(binding.ref)]

\* create_match / create_gremlin / create_cypher_schema_info given references.
CreateGraphObject(h, creator, schema, type_equivalence_hints) ==
    LET created ==
            CASE creator = "create_match_schema_info" ->
                    create_match_schema_info(schema, type_equivalence_hints)
              [] creator = "create_gremlin_schema_info" ->
                    create_gremlin_schema_info(schema, type_equivalence_hints)
              [] creator = "create_cypher_schema_info" ->
                    create_cypher_schema_info(schema, type_equivalence_hints)
        binding == NewObject(h, created.returned)
    IN [heap |-> binding.heap, outcome |-> Return(binding.ref)]

AttributeError == [exc |-> "AttributeError", msg |-> <<>>]

\* The read-only properties of BackendSpecificSchemaInfo.
Properties == {"schema", "type_equivalence_hints"}

\* binding.<name>: a property reads the object held in generic_schema_info,
\* any other name is an instance attribute.
GetAttr(h, binding, name) ==
    LET fields == h[binding.ref]
    IN IF name \in Properties
       THEN IF name \in DOMAIN fields.generic_schema_info
            THEN Return(fields.generic_schema_info[name])
            ELSE Raise(AttributeError)
       ELSE IF name \in DOMAIN fields
       THEN Return(fields[name])
       ELSE Raise(AttributeError)

\* binding.<name> = value on an instance of a dataclass that is not frozen:
\* a property without a setter refuses, any other name is assigned.
SetAttr(h, binding, name, value) ==
    IF name \in Properties
    THEN [heap |-> h, outcome |-> Raise(AttributeError)]
    ELSE [heap |-> [h EXCEPT ![binding.ref] =
                       [f \in DOMAIN @ \cup {name} |-> IF f = name THEN value ELSE @[f]]],
          outcome |-> Return(None)]

-----------------------------------------------------------------------------
(* The calls on objects.                                                   *)

GraphCreators ==
    {"create_match_schema_info", "create_gremlin_schema_info",
     "create_cypher_schema_info"}

BackendCreators == GraphCreators \cup SqlCreators

ObjectGraphArgs ==
    [schema : {[type_map |-> <<>>],
               [type_map |-> <<<<Animal, GraphQLType("GraphQLObjectType", <<name_field>>)>>>>]},
     type_equivalence_hints : TypeEquivalenceHints]

\* The values TriState is called with.
PyValues ==
    {PyTrue, PyFalse, None}
    \cup {PyInt(n) : n \in (0 - 1)..2}
    \cup {PyFloat(n) : n \in 0..2}
    \cup {PyStr(<<>>), PyStr(<<"T","r","u","e">>)}

TriStateArgs == [value : PyValues]

\* The attribute names of the binding an operation returns.
AttributeNames(operation) ==
    {"generic_schema_info"} \cup Properties
    \cup (IF operation \in SqlCreators
          THEN {"dialect", "vertex_name_to_table", "join_descriptors"}
          ELSE {})

\* Values a caller assigns to an attribute.
AssignedValues(name) ==
    CASE name = "dialect" -> {"postgresql_dialect", "mssql_dialect"}
      [] name = "generic_schema_info" -> {None, GenericSchemaInfo(None, None)}
      [] OTHER -> {None}

\* Schemas of one vertex type with at most one field, and tables for it.
ObjectSchemas ==
    {s \in Schemas : /\ Len(s.type_map) = 1
                     /\ s.type_map[1][1] = Animal
                     /\ Len(s.type_map[1][2].fields) <= 1}

ObjectTables == {t \in VertexNameToTables : DOMAIN t \subseteq {Animal}}

ObjectMakeArgs ==
    [schema : ObjectSchemas,
     type_equivalence_hints : TypeEquivalenceHints,
     dialect : Dialects,
     vertex_name_to_table : ObjectTables,
     join_descriptors : JoinDescriptors,
     validate : BOOLEAN]

\* The creators read nothing of what they are given: two values of each.
ObjectCreateArgs ==
    [schema : {[type_map |-> <<>>],
               [type_map |-> <<<<Animal, GraphQLType("GraphQLObjectType", <<name_field>>)>>>>]},
     type_equivalence_hints : TypeEquivalenceHints,
     vertex_name_to_table : {EmptyDict, [n \in {Animal} |-> Table({name_field}, {name_field})]},
     join_descriptors : {EmptyDict, [n \in {Animal} |-> JoinsOn({out_edge_field})]}]

ObjectArgsOf(operation) ==
    CASE operation = "merge_non_overlapping_dicts" -> MergeArgs
      [] operation = "make_sqlalchemy_schema_info" -> ObjectMakeArgs
      [] operation \in SqlCreators -> ObjectCreateArgs
      [] operation \in GraphCreators -> ObjectGraphArgs
      [] operation = "TriState" -> TriStateArgs

ObjectOperations ==
    {"merge_non_overlapping_dicts", "make_sqlalchemy_schema_info", "TriState"}
    \cup BackendCreators

ObjectInit ==
    /\ pc = "call"
    /\ op \in ObjectOperations
    /\ args \in ObjectArgsOf(op)
    /\ heap = HeapOf(op, args)
    /\ ret = None
    /\ err = NoError
    /\ log = <<>>

\* The call ends: h is the heap it leaves.
ObjectFinish(h, outcome) ==
    /\ pc' = "done"
    /\ heap' = h
    /\ ret' = outcome.returned
    /\ err' = outcome.raised
    /\ UNCHANGED <<op, args, log>>

CallMergeNonOverlappingDicts ==
    /\ pc = "call"
    /\ op = "merge_non_overlapping_dicts"
    /\ LET m == MergeObjects(heap, ArgRef(op, "merge_target"), ArgRef(op, "new_data"))
       IN ObjectFinish(m.heap, m.outcome)

CallMakeSqlalchemySchemaInfo ==
    /\ pc = "call"
    /\ op = "make_sqlalchemy_schema_info"
    /\ LET m == MakeSqlalchemyObject(
                    heap, ArgRef(op, "schema"), ArgRef(op, "type_equivalence_hints"),
                    args.dialect, ArgRef(op, "vertex_name_to_table"),
                    ArgRef(op, "join_descriptors"), args.validate)
       IN ObjectFinish(m.heap, m.outcome)

CallCreateSqlSchemaInfo ==
    /\ pc = "call"
    /\ op \in SqlCreators
    /\ LET m == CreateSqlObject(
                    heap, op, ArgRef(op, "schema"), ArgRef(op, "vertex_name_to_table"),
                    ArgRef(op, "join_descriptors"), ArgRef(op, "type_equivalence_hints"))
       IN ObjectFinish(m.heap, m.outcome)

CallCreateGraphSchemaInfo ==
    /\ pc = "call"
    /\ op \in GraphCreators
    /\ LET m == CreateGraphObject(heap, op, ArgRef(op, "schema"),
                                  ArgRef(op, "type_equivalence_hints"))
       IN ObjectFinish(m.heap, m.outcome)

\* The caller reads an attribute of the binding it was returned.
ReadAttribute ==
    /\ pc = "done"
    /\ op \in BackendCreators
    /\ ret # None
    /\ Len(log) < MaxUses
    /\ \E name \in AttributeNames(op) :
          LET outcome == GetAttr(heap, ret, name)
          IN log' = Append(log, [call |-> "getattr", name |-> name,
                                 raised |-> outcome.raised,
                                 returned |-> outcome.returned])
    /\ UNCHANGED <<pc, op, args, ret, err, heap>>

\* The caller assigns to an attribute of the binding it was returned.
AssignAttribute ==
    /\ pc = "done"
    /\ op \in BackendCreators
    /\ ret # None
    /\ Len(log) < MaxUses
    /\ \E name \in AttributeNames(op) : \E value \in AssignedValues(name) :
          LET set == SetAttr(heap, ret, name, value)
          IN /\ heap' = set.heap
             /\ log' = Append(log, [call |-> "setattr", name |-> name,
                                    raised |-> set.outcome.raised,
                                    returned |-> set.outcome.returned])
    /\ UNCHANGED <<pc, op, args, ret, err>>

ConstructTriState ==
    /\ pc = "call"
    /\ op = "TriState"
    /\ LET m == TriState_init(heap, args.value)
       IN ObjectFinish(m.heap, m.outcome)

\* A use of the TriState that was constructed: what it gave is logged.
UseTriState(call, outcome) ==
    /\ pc = "done"
    /\ op = "TriState"
    /\ ret # None
    /\ Len(log) < MaxUses
    /\ log' = Append(log, [call |-> call, name |-> "",
                           raised |-> outcome.raised, returned |-> outcome.returned])
    /\ UNCHANGED <<pc, op, args, ret, err, heap>>

ReadTriStateValue == UseTriState("value", TriState_value(heap, ret))

TruthTestTriState == UseTriState("__bool__", TriState_bool(heap, ret))

NonzeroTriState == UseTriState("__nonzero__", TriState_nonzero(heap, ret))

ObjectNext ==
    \/ CallMergeNonOverlappingDicts
    \/ CallMakeSqlalchemySchemaInfo
    \/ CallCreateSqlSchemaInfo
    \/ CallCreateGraphSchemaInfo
    \/ ReadAttribute
    \/ AssignAttribute
    \/ ConstructTriState
    \/ ReadTriStateValue
    \/ TruthTestTriState
    \/ NonzeroTriState

ObjectSpec == ObjectInit /\ [][ObjectNext]_vars

-----------------------------------------------------------------------------
(* What the properties below talk about.                                   *)

Done == pc = "done"

MakeDone == Done /\ op = "make_sqlalchemy_schema_info"

\* The synthetic root query type and the introspection builtins.
Exempt(type_name) ==
    \/ type_name = RootSchemaQuery
    \/ Len(type_name) >= 2 /\ type_name[1] = "_" /\ type_name[2] = "_"

\* The positions in the type map of the object and interface types that need
\* a table.
MappedTypes(schema) ==
    {i \in 1..Len(schema.type_map) :
        /\ schema.type_map[i][2].kind \in {"GraphQLObjectType", "GraphQLInterfaceType"}
        /\ ~Exempt(schema.type_map[i][1])}

EdgeField(f) ==
    \/ Len(f) >= 4 /\ <<f[1], f[2], f[3], f[4]>> = <<"o","u","t","_">>
    \/ Len(f) >= 3 /\ <<f[1], f[2], f[3]>> = <<"i","n","_">>

TypeNameAt(schema, i) == schema.type_map[i][1]
FieldsAt(schema, i) == schema.type_map[i][2].fields

HasTable(schema, tables, i) == TypeNameAt(schema, i) \in DOMAIN tables

HasJoin(schema, joins, i, j) ==
    /\ TypeNameAt(schema, i) \in DOMAIN joins
    /\ FieldsAt(schema, i)[j] \in DOMAIN joins[TypeNameAt(schema, i)]

HasColumn(schema, tables, i, j) ==
    \/ FieldsAt(schema, i)[j] = x_count_field
    \/ /\ HasTable(schema, tables, i)
       /\ FieldsAt(schema, i)[j] \in tables[TypeNameAt(schema, i)].c

\* (a), (b) and (c): a table entry, join descriptors and columns for every
\* mapped type.
Complete(schema, tables, joins) ==
    \A i \in MappedTypes(schema) :
        /\ HasTable(schema, tables, i)
        /\ \A j \in 1..Len(FieldsAt(schema, i)) :
              IF EdgeField(FieldsAt(schema, i)[j])
              THEN HasJoin(schema, joins, i, j)
              ELSE HasColumn(schema, tables, i, j)

\* Every table entry of a mapped type is a sqlalchemy.Table.
TablesAreTables(schema, tables) ==
    \A i \in MappedTypes(schema) :
        HasTable(schema, tables, i) => tables[TypeNameAt(schema, i)].is_table

WellFormed(schema, tables, joins) ==
    Complete(schema, tables, joins) /\ TablesAreTables(schema, tables)

-----------------------------------------------------------------------------
\* C1 (as claimed): with validate=True make_sqlalchemy_schema_info returns a
\* binding if and only if every mapped type has (a) a table entry, (b) a join
\* descriptor for every vertex field and (c) a column for every property field
\* other than _x_count.
C1_IffComplete ==
    (MakeDone /\ args.validate) =>
        ((ret # None) <=>
            Complete(args.schema, args.vertex_name_to_table, args.join_descriptors))

\* C1 (amended): with validate=True make_sqlalchemy_schema_info returns a
\* binding if and only if (a), (b), (c) hold and every such table entry is a
\* sqlalchemy.Table; in every other case it raises AssertionError and returns
\* nothing.
C1_IffCompleteAndTables ==
    (MakeDone /\ args.validate) =>
        IF WellFormed(args.schema, args.vertex_name_to_table, args.join_descriptors)
        THEN ret # None /\ err = NoError
        ELSE ret = None /\ err.exc = "AssertionError"

\* A validated binding of two mapped types, one with a property and a vertex
\* field.
C1_Witness ==
    /\ MakeDone /\ args.validate /\ ret # None
    /\ Cardinality(MappedTypes(args.schema)) = 2
    /\ \E i \in MappedTypes(args.schema) :
          FieldsAt(args.schema, i) = <<name_field, out_edge_field>>

-----------------------------------------------------------------------------
\* C2 (as claimed): when the table of some mapped type carries no primary key,
\* construction with validate=True fails with a missing-primary-key error
\* naming that type, even when tables, columns and join descriptors are all
\* present.
C2_MissingPrimaryKeyFails ==
    (MakeDone /\ args.validate) =>
        \A i \in MappedTypes(args.schema) :
            (/\ HasTable(args.schema, args.vertex_name_to_table, i)
             /\ args.vertex_name_to_table[TypeNameAt(args.schema, i)].is_table
             /\ args.vertex_name_to_table[TypeNameAt(args.schema, i)].primary_key = {}
             /\ WellFormed(args.schema, args.vertex_name_to_table, args.join_descriptors))
            => /\ ret = None
               /\ err # NoError
               /\ \E k \in 2..Len(err.msg) : err.msg[k] = TypeNameAt(args.schema, i)

-----------------------------------------------------------------------------
\* The schema, tables and joins of a returned binding, whichever class it has.
SchemaOf(binding) ==
    IF "generic_schema_info" \in DOMAIN binding
    THEN binding.generic_schema_info.schema ELSE binding.schema

BindingWellFormed(binding) ==
    WellFormed(SchemaOf(binding), binding.vertex_name_to_table, binding.join_descriptors)

\* The constructors whose whole code is in schema_info.py.
BindingConstructors == {"make_sqlalchemy_schema_info"} \cup SqlCreators

ValidationDisabled == op = "make_sqlalchemy_schema_info" /\ ~args.validate

\* C3: no relational binding constructor returns, unless the caller disabled
\* validation, a binding that the validator rejects.  Stated of
\* make_sqlalchemy_schema_info and the three create_*_schema_info functions.
C3_NeverReturnsInvalid ==
    (Done /\ op \in BindingConstructors /\ ~ValidationDisabled /\ ret # None)
        => BindingWellFormed(ret)

-----------------------------------------------------------------------------
\* C4: make_sqlalchemy_schema_info with validate=False succeeds for every
\* input and returns the binding made of exactly its five arguments, and a
\* validate=True call that succeeds returns that same binding.
C4_UnvalidatedPackaging ==
    MakeDone =>
        /\ ~args.validate => err = NoError
        /\ err = NoError =>
              ret = [schema |-> args.schema,
                     type_equivalence_hints |-> args.type_equivalence_hints,
                     dialect |-> args.dialect,
                     vertex_name_to_table |-> args.vertex_name_to_table,
                     join_descriptors |-> args.join_descriptors]

\* An unvalidated binding that lacks a table, with hints given.
C4_Witness ==
    /\ MakeDone /\ ~args.validate /\ ret # None
    /\ args.type_equivalence_hints # None
    /\ ~Complete(args.schema, args.vertex_name_to_table, args.join_descriptors)

-----------------------------------------------------------------------------
(* The violations of a binding, by position: <<i, 0>> is the table of the  *)
(* i-th type of the type map, <<i, j>> its j-th field.                     *)

TableViolation(schema, tables, i) ==
    \/ ~HasTable(schema, tables, i)
    \/ ~tables[TypeNameAt(schema, i)].is_table

FieldViolation(schema, tables, joins, i, j) ==
    IF EdgeField(FieldsAt(schema, i)[j])
    THEN ~HasJoin(schema, joins, i, j)
    ELSE ~HasColumn(schema, tables, i, j)

Violations(schema, tables, joins) ==
    {<<i, 0>> : i \in {x \in MappedTypes(schema) : TableViolation(schema, tables, x)}}
    \cup {p \in MappedTypes(schema) \X (1..MaxFields + 1) :
             /\ p[2] <= Len(FieldsAt(schema, p[1]))
             /\ FieldViolation(schema, tables, joins, p[1], p[2])}

Before(p, q) == p[1] < q[1] \/ (p[1] = q[1] /\ p[2] <= q[2])

FirstViolation(schema, tables, joins) ==
    CHOOSE p \in Violations(schema, tables, joins) :
        \A q \in Violations(schema, tables, joins) : Before(p, q)

ViolationKind(schema, tables, p) ==
    IF p[2] = 0
    THEN (IF HasTable(schema, tables, p[1]) THEN "wrong_type" ELSE "missing_table")
    ELSE (IF EdgeField(FieldsAt(schema, p[1])[p[2]]) THEN "missing_join"
          ELSE "missing_column")

\* The message each kind of violation is reported with.
MessageOf(kind) ==
    CASE kind = "missing_table" -> "Table for type {} not found"
      [] kind = "wrong_type" -> "Table for type {} has wrong type {}"
      [] kind = "missing_join" ->
            "No join descriptor was specified for vertex field {} on type {}"
      [] kind = "missing_column" ->
            "Table for type {} has no column for property field {}"
      [] kind = "collision" ->
            "Overlapping key \"{}\" found in dicts that are supposed to not overlap. Values: {} {}"

\* The type (and field) a violation is about.
NamesOf(schema, p) ==
    IF p[2] = 0 THEN {TypeNameAt(schema, p[1])}
    ELSE {TypeNameAt(schema, p[1]), FieldsAt(schema, p[1])[p[2]]}

MessageNames(e) == {e.msg[k] : k \in 2..Len(e.msg)}

\* C5: a validation that fails reports the first violation in traversal order
\* (types in type-map order; the table of a type before its fields; fields in
\* declaration order), names its type (and field), and returns no binding.
C5_FirstViolationReported ==
    (/\ MakeDone /\ args.validate
     /\ Violations(args.schema, args.vertex_name_to_table, args.join_descriptors) # {})
    => LET p == FirstViolation(args.schema, args.vertex_name_to_table,
                               args.join_descriptors)
       IN /\ ret = None
          /\ err.exc = "AssertionError"
          /\ err.msg[1] = MessageOf(ViolationKind(args.schema, args.vertex_name_to_table, p))
          /\ NamesOf(args.schema, p) \subseteq MessageNames(err)

\* A failed validation of a binding with violations in two types, two of them
\* on fields of one type.
C5_Witness ==
    /\ MakeDone /\ args.validate /\ ret = None
    /\ LET v == Violations(args.schema, args.vertex_name_to_table, args.join_descriptors)
       IN /\ \E p, q \in v : p[1] # q[1]
          /\ \E p, q \in v : p[1] = q[1] /\ p[2] # q[2] /\ p[2] > 0 /\ q[2] > 0

-----------------------------------------------------------------------------
\* What went wrong in a finished call, judged from its arguments: one of the
\* four kinds of C6, or "other".
FailureKind ==
    IF op = "make_sqlalchemy_schema_info" /\ args.validate
       /\ Violations(args.schema, args.vertex_name_to_table, args.join_descriptors) # {}
    THEN ViolationKind(args.schema, args.vertex_name_to_table,
                       FirstViolation(args.schema, args.vertex_name_to_table,
                                      args.join_descriptors))
    ELSE IF op = "merge_non_overlapping_dicts"
            /\ \E i \in 1..Len(args.new_data) :
                  args.new_data[i][1] \in DOMAIN args.merge_target
    THEN "collision"
    ELSE "other"

FourKinds == {"missing_table", "missing_column", "missing_join", "collision"}

OneTypeSchema(fields) ==
    [type_map |-> <<<<Animal, GraphQLType("GraphQLObjectType", fields)>>>>]

\* The exception the code raises for one violation of each kind.
RaisedFor(kind) ==
    CASE kind = "missing_table" ->
            make_sqlalchemy_schema_info(OneTypeSchema(<<>>), None, "mssql_dialect()",
                                        EmptyDict, EmptyDict, TRUE).raised
      [] kind = "missing_column" ->
            make_sqlalchemy_schema_info(OneTypeSchema(<<name_field>>), None,
                                        "mssql_dialect()",
                                        [n \in {Animal} |-> Table({}, {})],
                                        EmptyDict, TRUE).raised
      [] kind = "missing_join" ->
            make_sqlalchemy_schema_info(OneTypeSchema(<<out_edge_field>>), None,
                                        "mssql_dialect()",
                                        [n \in {Animal} |-> Table({}, {})],
                                        EmptyDict, TRUE).raised
      [] kind = "collision" ->
            merge_non_overlapping_dicts([n \in {"start"} |-> "x"],
                                        <<<<"start", "y">>>>).raised

\* C6: the errors for a missing table, a missing column, a missing join
\* descriptor and a parameter-name collision are of four different exception
\* types.
C6_DistinctErrorTypes ==
    (Done /\ FailureKind \in FourKinds) =>
        \A other \in FourKinds \ {FailureKind} : err.exc # RaisedFor(other).exc

-----------------------------------------------------------------------------
PlanningDone == Done /\ op = "QueryPlanningSchemaInfo"

PassedEdgeConstraints ==
    IF args.passes_edge_constraints THEN args.edge_constraints ELSE EmptyDict

UnknownVertexGiven ==
    ~((DOMAIN args.pagination_keys \cup DOMAIN args.uuid4_fields)
        \subseteq args.schema_graph.vertices)

UnknownEdgeGiven == ~(DOMAIN PassedEdgeConstraints \subseteq args.schema_graph.edges)

\* C7: constructing a QueryPlanningSchemaInfo fails with an unknown-vertex
\* error when a key of pagination_keys or uuid4_fields is no vertex of
\* schema_graph, with an unknown-edge error when a key of edge_constraints is
\* no edge of it, and succeeds only when all names are valid.
C7_UnknownNamesRejected ==
    PlanningDone =>
        /\ UnknownVertexGiven => (ret = None /\ err.exc = "UnknownVertexError")
        /\ (UnknownEdgeGiven /\ ~UnknownVertexGiven)
              => (ret = None /\ err.exc = "UnknownEdgeError")
        /\ ret # None => (~UnknownVertexGiven /\ ~UnknownEdgeGiven)

-----------------------------------------------------------------------------
(* Sub-queries and the key ranges their boundary filters select.           *)

Directives(sub) ==
    UNION {{sub.query.selections[s].directives[d] :
               d \in 1..Len(sub.query.selections[s].directives)} :
           s \in 1..Len(sub.query.selections)}

\* The values that the filters with operator op_name compare the key with.
Bounds(sub, op_name) ==
    {sub.parameters[Tail(d.value[1])] :
        d \in {x \in Directives(sub) : x.directive = "filter" /\ x.op_name = op_name}}

\* The selections of a sub-query that carry no filter.
Unfiltered(sub) ==
    LET keep(s) == \A d \in 1..Len(s.directives) : s.directives[d].directive # "filter"
        F[n \in 0..Len(sub.query.selections)] ==
            IF n = 0 THEN <<>>
            ELSE IF keep(sub.query.selections[n])
                 THEN Append(F[n - 1], sub.query.selections[n]) ELSE F[n - 1]
    IN F[Len(sub.query.selections)]

FirstCutOfFour ==
    <<"4","0","0","0","0","0","0","0","-","0","0","0","0","-","0","0","0","0","-",
      "0","0","0","0","-","0","0","0","0","0","0","0","0","0","0","0","0">>

\* max(1, ceil(count / page_size))
ClaimedK(count, page_size) ==
    LET q == count \div page_size
        c == IF q * page_size = count THEN q ELSE q + 1
    IN IF c > 1 THEN c ELSE 1

\* seq is `original` split in k: sub-query i adds a '>=' filter unless first
\* and a '<' filter unless last, and nothing else.
SplitInto(seq, original, k) ==
    /\ Len(seq) = k
    /\ \A i \in 1..Len(seq) :
          /\ Cardinality(Bounds(seq[i], ">=")) = (IF i = 1 THEN 0 ELSE 1)
          /\ Cardinality(Bounds(seq[i], "<")) = (IF i = k THEN 0 ELSE 1)
          /\ seq[i].query.vertex = original.vertex
          /\ Unfiltered(seq[i]) = original.selections

\* C8: for a pageable query with root count C and a positive page size, exactly
\* K = max(1, ceil(C / page_size)) sub-queries come out, each the original
\* plus its boundary filters; Animal with count 4 and page size 1 gives 4
\* sub-queries with first cut 40000000-0000-0000-0000-000000000000.
C8_KSubQueries ==
    /\ (/\ Done /\ op = "paginate_query"
        /\ args.page_size > 0
        /\ args.query_ast = test_ast
        /\ Animal \in DOMAIN args.statistics.class_counts
        /\ args.parameters = EmptyDict)
       => /\ err = NoError
          /\ ret # None
          /\ SplitInto(ret, args.query_ast,
                       ClaimedK(args.statistics.class_counts[Animal], args.page_size))
    /\ (Done /\ op = "test_basic_pagination")
       => /\ err = NoError
          /\ SplitInto(expected_query_list, test_ast, ClaimedK(4, 1))
          /\ Bounds(expected_query_list[1], "<") = {FirstCutOfFour}

-----------------------------------------------------------------------------
-----------------------------------------------------------------------------
\* The keys of a new_data dict given by its items.
KeysOf(items) == {items[i][1] : i \in 1..Len(items)}

\* The dict holding the items of target and the given items.
UnionOf(target, items) ==
    [k \in DOMAIN target \cup KeysOf(items) |->
        IF k \in KeysOf(items)
        THEN items[CHOOSE i \in 1..Len(items) : items[i][1] = k][2]
        ELSE target[k]]

MergeDone == pc = "done" /\ op = "merge_non_overlapping_dicts"

\* C14: merge_non_overlapping_dicts returns a new dict equal to the union of
\* its two dicts when their keys are disjoint, and raises the overlap error,
\* returning nothing, when a key of new_data is in merge_target, equal values
\* or not; in both cases the two dicts passed in hold what they held.
C14_MergeLeavesInputs ==
    MergeDone =>
        LET overlap == KeysOf(args.new_data) \cap DOMAIN args.merge_target
        IN /\ heap[ArgRef(op, "merge_target").ref] = args.merge_target
           /\ heap[ArgRef(op, "new_data").ref] = args.new_data
           /\ overlap = {} =>
                 /\ err = NoError
                 /\ ret \notin {None, ArgRef(op, "merge_target"), ArgRef(op, "new_data")}
                 /\ heap[ret.ref] = UnionOf(args.merge_target, args.new_data)
           /\ overlap # {} =>
                 /\ err.exc = "AssertionError"
                 /\ ret = None

\* A merge that stored one item and then met a key of merge_target mapped to
\* the very value merge_target holds for it.
C14_Witness ==
    /\ MergeDone
    /\ Len(args.new_data) = 2
    /\ args.new_data[1][1] \notin DOMAIN args.merge_target
    /\ args.new_data[2][1] \in DOMAIN args.merge_target
    /\ args.merge_target[args.new_data[2][1]] = args.new_data[2][2]
    /\ err # NoError

-----------------------------------------------------------------------------
RelationalConstructors == {"make_sqlalchemy_schema_info"} \cup SqlCreators

\* C12: constructing a relational binding, validated or not, returned or
\* failed, leaves the schema, the tables, the join descriptors and the hints
\* it was given as they were, and the binding returned holds the very tables
\* and join descriptors objects passed in.
C12_InputsSharedUnchanged ==
    (pc = "done" /\ op \in RelationalConstructors) =>
        /\ \A i \in 1..Len(ObjectParams(op)) :
              heap[ArgRef(op, ObjectParams(op)[i]).ref] = args[ObjectParams(op)[i]]
        /\ ret = None <=> err # NoError
        /\ (ret # None /\ log = <<>>) =>
              /\ heap[ret.ref].vertex_name_to_table = ArgRef(op, "vertex_name_to_table")
              /\ heap[ret.ref].join_descriptors = ArgRef(op, "join_descriptors")

\* A validated binding over a table and a join descriptor, returned.
C12_Witness ==
    /\ pc = "done" /\ op = "make_sqlalchemy_schema_info"
    /\ args.validate
    /\ ret # None
    /\ args.vertex_name_to_table # EmptyDict
    /\ args.join_descriptors # EmptyDict
    /\ heap[ret.ref].vertex_name_to_table # heap[ret.ref].join_descriptors

-----------------------------------------------------------------------------
\* The reads of the binding among the uses made so far.
ReadsOf(name) == {i \in 1..Len(log) : log[i].call = "getattr" /\ log[i].name = name}

\* Every read of schema and of type_equivalence_hints gave the object passed
\* to the constructor.
AccessorsGiveArguments ==
    \A name \in Properties : \A i \in ReadsOf(name) :
        /\ log[i].raised = NoError
        /\ log[i].returned = ArgRef(op, name)

\* Every read of an attribute gave what the first read of it gave.
ReadsRepeat ==
    \A name \in AttributeNames(op) : \A i, j \in ReadsOf(name) :
        /\ log[i].raised = log[j].raised
        /\ log[i].returned = log[j].returned

\* C13: on a binding built by one of the create_*_schema_info functions the
\* accessors schema and type_equivalence_hints return the objects given at
\* construction, and whatever is done with the binding in between, a repeated
\* read of schema, type_equivalence_hints, dialect, tables or joins returns
\* what the first read returned.
C13_ReadsStable ==
    (pc = "done" /\ op \in BackendCreators) =>
        /\ AccessorsGiveArguments
        /\ ReadsRepeat

-----------------------------------------------------------------------------
TriStateDone == pc = "done" /\ op = "TriState"

\* The three values a TriState is meant to hold.
TrueFalseNone == {PyTrue, PyFalse, None}

\* Every truth test made of the TriState raised ValueError.
TruthTestsRaise ==
    \A i \in 1..Len(log) :
        log[i].call \in {"__bool__", "__nonzero__"} =>
            /\ log[i].raised.exc = "ValueError"
            /\ log[i].returned = None

\* C15: a TriState holds only True, False or None: constructing one with any
\* other value, the integers 0 and 1 included, raises AssertionError; and a
\* truth test of a TriState raises ValueError whatever its value.
C15_OnlyTrueFalseNone ==
    TriStateDone =>
        /\ args.value \notin TrueFalseNone => (err.exc = "AssertionError" /\ ret = None)
        /\ ret # None => heap[ret.ref]._value \in TrueFalseNone
        /\ TruthTestsRaise

====
